---- MODULE Spec2Model ----
(***************************************************************************)
(* A model of signac's file-backed document Collection                     *)
(* (signac/contrib/collection.py): the document table, the lazily          *)
(* refreshed secondary indices, filter resolution and the line-per-        *)
(* document backing file; and of its HDF5 data store (signac/core/         *)
(* h5store.py): the open and closed store and the groups of its file.      *)
(*                                                                         *)
(* JSON values are tagged tuples, the tag first, so that values of         *)
(* different Python types compare unequal instead of being incomparable:   *)
(*   <<"int", n>>   <<"str", s>>   <<"list", seq>>   <<"tuple", seq>>      *)
(*   <<"map", f>>   a dict held in a document (f a function on its keys)   *)
(*   <<"dict", q>>  a dict of a filter, q its (key, value) pairs in        *)
(*                  iteration order (the order decides which term of a     *)
(*                  filter is resolved first)                              *)
(*   <<"null">>     None                                                   *)
(* A document is the function of its top-level dict.                       *)
(***************************************************************************)
EXTENDS Integers, Sequences, FiniteSets, TLC

VARIABLES
    docs,            \* self._docs: id -> document (meaningful while is_open)
    is_open,         \* self._docs is not None
    dirty,           \* self._dirty
    indeces,         \* self._indeces: key -> (encoded value -> set of ids)
    requires_flush,  \* self._requires_flush
    file,            \* self._file: "open" or "None"
    file_pos,        \* the stream position of self._file, in lines
    disk,            \* the lines of the backing resource
    h5s,             \* an H5Store: its _file ("File" or "None") and the root group
                     \* of the HDF5 file it names
    pandas,          \* whether "import pandas" succeeded when h5store.py was loaded
    ret              \* the last call: its arguments and what it returned or raised

vars == <<docs, is_open, dirty, indeces, requires_flush, file, file_pos, disk, h5s, pandas,
          ret>>

primary_key == "_id"

----------------------------------------------------------------------------
\* Values

VInt(n) == <<"int", n>>
VStr(s) == <<"str", s>>
VList(q) == <<"list", q>>
VTuple(q) == <<"tuple", q>>
VMap(f) == <<"map", f>>
VDict(q) == <<"dict", q>>
None == <<"null">>

EmptyFcn == [k \in {} |-> None]

\* The mapping f with f[k] set to v (d[k] = v on a dict).
Put(f, k, v) == [j \in DOMAIN f \cup {k} |-> IF j = k THEN v ELSE f[j]]

\* json.loads(json.dumps(x)): tuples come back as lists, everything else of
\* the value universe comes back as it went in.
RECURSIVE json_roundtrip(_)
json_roundtrip(x) ==
    CASE x[1] \in {"list", "tuple"} ->
            <<"list", [i \in DOMAIN x[2] |-> json_roundtrip(x[2][i])]>>
      [] x[1] = "map" ->
            <<"map", [k \in DOMAIN x[2] |-> json_roundtrip(x[2][k])]>>
      [] x[1] = "dict" ->
            <<"dict", [i \in DOMAIN x[2] |->
                          <<x[2][i][1], json_roundtrip(x[2][i][2])>>]>>
      [] OTHER -> x

\* The decimal text of the small integers of the value universe.
DigitText == <<"0", "1", "2", "3", "4", "5", "6", "7", "8", "9">>

\* json.dumps of a scalar or of a list of them: "[1, 2]" for [1, 2].
RECURSIVE json_dumps(_)
json_dumps(x) ==
    LET RECURSIVE Join(_, _)
        Join(q, i) ==
            IF i > Len(q) THEN ""
            ELSE json_dumps(q[i]) \o (IF i < Len(q) THEN ", " ELSE "") \o Join(q, i + 1)
    IN  CASE x[1] = "int" -> DigitText[x[2] + 1]
          [] x[1] = "str" -> "\"" \o x[2] \o "\""
          [] x[1] = "null" -> "null"
          [] x[1] \in {"list", "tuple"} -> "[" \o Join(x[2], 1) \o "]"

\* _encode_tree: a list becomes its JSON text, anything else is used as is.
_encode_tree(x) ==
    IF x[1] = "list" THEN VStr(json_dumps(x)) ELSE x

\* _traverse_tree with include=None and encode=_encode_tree, as traverse_filter
\* calls it. A branch (k1, (k2, leaf)) is kept as its node list <<k1, k2, leaf>>,
\* which is what _flatten makes of it. The list case of the source is dead here:
\* encode has turned every list into a string before the test.
RECURSIVE _traverse_tree(_)
_traverse_tree(t0) ==
    LET t == _encode_tree(t0)
        RECURSIVE Over(_, _)
        Over(q, i) ==
            IF i > Len(q) THEN <<>>
            ELSE LET sub == _traverse_tree(q[i][2])
                 IN  [j \in DOMAIN sub |-> <<VStr(q[i][1])>> \o sub[j]] \o Over(q, i + 1)
    IN  IF t[1] = "dict" THEN Over(t[2], 1) ELSE << <<t>> >>

\* '.'.join(nodes) for a list of key nodes.
RECURSIVE join_dot(_)
join_dot(nodes) ==
    IF Len(nodes) = 0 THEN ""
    ELSE IF Len(nodes) = 1 THEN nodes[1][2]
    ELSE nodes[1][2] \o "." \o join_dot(Tail(nodes))

\* traverse_filter: one (dotted key, leaf value) pair per branch.
traverse_filter(t) ==
    LET bs == _traverse_tree(t)
    IN  [j \in DOMAIN bs |->
            <<join_dot(SubSeq(bs[j], 1, Len(bs[j]) - 1)), bs[j][Len(bs[j])]>>]

\* _valid_filter
RECURSIVE _valid_filter(_, _)
_valid_filter(f, top) ==
    CASE f[1] = "dict" ->
            \A i \in DOMAIN f[2] : _valid_filter(f[2][i][2], FALSE)
      [] f[1] = "list" -> ~top
      [] OTHER -> TRUE

\* key.split('.') on the keys the model uses.
split_dot(key) ==
    CASE key = "x.y" -> <<"x", "y">>
      [] OTHER -> <<key>>

----------------------------------------------------------------------------
\* Indices

\* _get_value of _build_index: the value under nodes, or what doc[...] raises
\* on the way (KeyError for a missing key of a dict, TypeError for subscripting
\* a number, a string or a list with a key).
RECURSIVE _get_value(_, _)
_get_value(doc, nodes) ==
    IF Len(nodes) = 0 THEN <<"ok", doc>>
    ELSE IF doc[1] = "map"
         THEN IF nodes[1] \in DOMAIN doc[2]
              THEN _get_value(doc[2][nodes[1]], Tail(nodes))
              ELSE <<"KeyError">>
         ELSE <<"TypeError">>

\* The body of _build_index's loop for one document: the encoded values the
\* document is entered under, and whether the body raises instead (an
\* unresolvable segment other than a missing key, or a dict as the dictionary
\* key index[...]). With several nodes the literal key 'a.b' is entered too.
index_entry(doc, key) ==
    LET nodes == split_dot(key)
        g == _get_value(VMap(doc), nodes)
        literal == Len(nodes) > 1 /\ key \in DOMAIN doc
    IN  [raises |-> \/ g[1] = "TypeError"
                    \/ (g[1] = "ok" /\ g[2][1] = "map")
                    \/ (literal /\ doc[key][1] = "map"),
         values |-> (IF g[1] = "ok" THEN {_encode_tree(g[2])} ELSE {})
                    \cup (IF literal THEN {_encode_tree(doc[key])} ELSE {})]

\* _build_index(docs, key, primary_key): <<"ok", index>>, or <<"TypeError">>.
_build_index(ds, key) ==
    IF \E d \in ds : index_entry(d, key).raises THEN <<"TypeError">>
    ELSE LET vs == UNION {index_entry(d, key).values : d \in ds}
         IN  <<"ok", [v \in vs |->
                 {d[primary_key][2] : d \in {e \in ds : v \in index_entry(e, key).values}}]>>

\* index[v].update(group) for every bucket of tmp.
merge_index(index, tmp) ==
    [v \in DOMAIN index \cup DOMAIN tmp |->
        (IF v \in DOMAIN index THEN index[v] ELSE {})
        \cup (IF v \in DOMAIN tmp THEN tmp[v] ELSE {})]

\* _remove_from_indeces that leaves a bucket it has emptied in its index.
remove_keeping_buckets(idx, _id) ==
    [k \in DOMAIN idx |-> [v \in DOMAIN idx[k] |-> idx[k][v] \ {_id}]]

\* Collection._remove_from_indeces
_remove_from_indeces(idx, _id) ==
    [k \in DOMAIN idx |->
        LET index == idx[k]
            keep == {v \in DOMAIN index : index[v] \ {_id} # {}}
        IN  [v \in keep |-> index[v] \ {_id}]]

\* for _id in self._dirty: self._remove_from_indeces(_id)
RECURSIVE remove_all(_, _)
remove_all(idx, drt) ==
    IF drt = {} THEN idx
    ELSE LET i == CHOOSE j \in drt : TRUE
         IN  remove_all(_remove_from_indeces(idx, i), drt \ {i})

\* _update_indeces without its first phase: the dirty ids stay in the buckets
\* they were in.
update_indeces_without_removal(D, drt, idx) ==
    IF drt = {} THEN {[status |-> "ok", indeces |-> idx, dirty |-> drt]}
    ELSE LET tmp == [k \in DOMAIN idx |-> _build_index({D[i] : i \in drt}, k)]
             bad == {k \in DOMAIN idx : tmp[k][1] # "ok"}
         IN  IF bad = {}
             THEN {[status |-> "ok",
                    indeces |-> [k \in DOMAIN idx |-> merge_index(idx[k], tmp[k][2])],
                    dirty |-> {}]}
             ELSE {[status |-> "TypeError", indeces |-> idx, dirty |-> drt]}

\* Collection._update_indeces: the states it can leave. When building the
\* contribution of the dirty documents raises for some index, the dirty ids are
\* out of every index already, the indices visited before the failing one are
\* merged, and the dirty set is kept; the order of the visit is the dict's.
_update_indeces(D, drt, idx) ==
    IF drt = {} THEN {[status |-> "ok", indeces |-> idx, dirty |-> drt]}
    ELSE LET removed == remove_all(idx, drt)
             tmp == [k \in DOMAIN idx |-> _build_index({D[i] : i \in drt}, k)]
             bad == {k \in DOMAIN idx : tmp[k][1] # "ok"}
             merged(S) == [k \in DOMAIN idx |->
                              IF k \in S THEN merge_index(removed[k], tmp[k][2])
                              ELSE removed[k]]
         IN  IF bad = {}
             THEN {[status |-> "ok", indeces |-> merged(DOMAIN idx), dirty |-> {}]}
             ELSE {[status |-> "TypeError", indeces |-> merged(S), dirty |-> drt] :
                      S \in SUBSET (DOMAIN idx \ bad)}

\* Collection.index(key, build): the outcomes; the index returned is
\* indeces[key] of an "ok" outcome.
index(D, drt, idx, key, build) ==
    IF key = primary_key \/ (key \notin DOMAIN idx /\ ~build)
    THEN {[status |-> "KeyError", indeces |-> idx, dirty |-> drt]}
    ELSE IF key \in DOMAIN idx THEN _update_indeces(D, drt, idx)
    ELSE LET b == _build_index({D[i] : i \in DOMAIN D}, key)
         IN  IF b[1] # "ok"
             THEN {[status |-> b[1], indeces |-> idx, dirty |-> drt]}
             ELSE _update_indeces(D, drt, Put(idx, key, b[2]))

----------------------------------------------------------------------------
\* Queries

Min(a, b) == IF a < b THEN a ELSE b

\* set(islice(s, limit if limit else None)): everything for limit 0, else the
\* first limit elements in the iteration order of s, which the program does not
\* control: any subset of that size.
islice(s, limit) ==
    IF limit = 0 THEN {s}
    ELSE {t \in SUBSET s : Cardinality(t) = Min(limit, Cardinality(s))}

find_outcome(status, ids, idx, drt) ==
    [status |-> status, ids |-> ids, indeces |-> idx, dirty |-> drt]

\* The loop of Collection._find over the terms from position i, and the return
\* after it. result is <<"None">> or <<"set", ids>>.
RECURSIVE find_loop(_, _, _, _, _, _, _)
find_loop(D, drt, idx, terms, i, result, limit) ==
    IF i > Len(terms)
    THEN IF result[1] = "None"
         THEN {find_outcome("TypeError", {}, idx, drt)}
         ELSE {find_outcome("ok", s, idx, drt) : s \in islice(result[2], limit)}
    ELSE UNION {
        IF o.status # "ok"
        THEN {find_outcome(o.status, {}, o.indeces, o.dirty)}
        ELSE LET ix == o.indeces[terms[i][1]]
                 matches == IF terms[i][2] \in DOMAIN ix THEN ix[terms[i][2]] ELSE {}
                 r == IF result[1] = "None" THEN matches ELSE result[2] \cap matches
             IN  IF r = {} \/ (limit # 0 /\ Cardinality(r) >= limit)
                 THEN {find_outcome("ok", s, o.indeces, o.dirty) : s \in islice(r, limit)}
                 ELSE find_loop(D, o.dirty, o.indeces, terms, i + 1, <<"set", r>>, limit)
        : o \in index(D, drt, idx, terms[i][1], TRUE)}

\* Collection._find(filter, limit): the outcomes, each with the ids returned
\* (or the exception raised) and the indices and dirty set it leaves.
_find(D, drt, idx, filter0, limit) ==
    LET filter == json_roundtrip(filter0)
    IN  IF filter # None /\ ~_valid_filter(filter, TRUE)
        THEN {find_outcome("ValueError", {}, idx, drt)}
        ELSE IF filter = None \/ Len(filter[2]) = 0
        THEN {find_outcome("ok", s, idx, drt) : s \in islice(DOMAIN D, limit)}
        ELSE LET at == {i \in DOMAIN filter[2] : filter[2][i][1] = primary_key}
                 _id == IF at = {} THEN None ELSE filter[2][CHOOSE i \in at : TRUE][2]
                 rest == VDict(SelectSeq(filter[2], LAMBDA p : p[1] # primary_key))
                 result == IF _id # None /\ _id[1] = "str" /\ _id[2] \in DOMAIN D
                           THEN <<"set", {_id[2]}>>
                           ELSE <<"None">>
             IN  find_loop(D, drt, idx, traverse_filter(rest), 1, result, limit)

----------------------------------------------------------------------------
\* The collection object and its mutations. An operation maps the object's
\* state to its outcomes: the status ("ok" or the exception raised), the ids it
\* returns, and the state it leaves.

Self ==
    [docs |-> docs, is_open |-> is_open, dirty |-> dirty, indeces |-> indeces,
     requires_flush |-> requires_flush]

outcome(status, ids, c) == [status |-> status, ids |-> ids, self |-> c]

\* __setitem__ without the comparison of the key with the document's own.
setitem_without_key_check(c, _id, doc) ==
    IF ~c.is_open THEN outcome("RuntimeError", {}, c)
    ELSE IF _id[1] # "str" THEN outcome("TypeError", {}, c)
    ELSE LET d == IF primary_key \in DOMAIN doc THEN doc
                  ELSE Put(doc, primary_key, _id)
         IN  outcome("ok", {},
                 [c EXCEPT !.docs = Put(c.docs, _id[2], json_roundtrip(VMap(d))[2]),
                           !.dirty = c.dirty \cup {_id[2]},
                           !.requires_flush = TRUE])

\* __setitem__ that marks the id dirty and the table unflushed before it checks
\* its arguments.
setitem_marking_first(c, _id, doc) ==
    IF ~c.is_open THEN outcome("RuntimeError", {}, c)
    ELSE LET m == [c EXCEPT !.requires_flush = TRUE]
             d == IF primary_key \in DOMAIN doc THEN doc ELSE Put(doc, primary_key, _id)
         IN  IF _id[1] # "str" THEN outcome("TypeError", {}, m)
             ELSE IF _id # d[primary_key] THEN outcome("ValueError", {}, m)
             ELSE outcome("ok", {},
                     [m EXCEPT !.docs = Put(c.docs, _id[2], json_roundtrip(VMap(d))[2]),
                               !.dirty = c.dirty \cup {_id[2]}])

\* Collection.__setitem__
__setitem__(c, _id, doc) ==
    IF ~c.is_open THEN outcome("RuntimeError", {}, c)
    ELSE IF _id[1] # "str" THEN outcome("TypeError", {}, c)
    ELSE LET d == IF primary_key \in DOMAIN doc THEN doc
                  ELSE Put(doc, primary_key, _id)
         IN  IF _id # d[primary_key] THEN outcome("ValueError", {}, c)
             ELSE outcome("ok", {},
                     [c EXCEPT !.docs = Put(c.docs, _id[2], json_roundtrip(VMap(d))[2]),
                               !.dirty = c.dirty \cup {_id[2]},
                               !.requires_flush = TRUE])

\* str(uuid4()): a token no document of the collection has.
Ids == {"a", "b"}
uuid4(c) == Ids \ DOMAIN c.docs

\* Collection.insert_one
insert_one(c, doc) ==
    IF ~c.is_open THEN {outcome("RuntimeError", {}, c)}
    ELSE IF primary_key \in DOMAIN doc
    THEN {[__setitem__(c, doc[primary_key], doc) EXCEPT !.ids =
                IF doc[primary_key][1] = "str" THEN {doc[primary_key][2]} ELSE {}]}
    ELSE {[__setitem__(c, VStr(u), Put(doc, primary_key, VStr(u))) EXCEPT !.ids = {u}] :
             u \in uuid4(c)}

\* __delitem__ that leaves the purge of the indices to the next refresh.
delitem_keeping_indeces(c, _id) ==
    IF ~c.is_open THEN outcome("RuntimeError", {}, c)
    ELSE IF _id \notin DOMAIN c.docs THEN outcome("KeyError", {}, c)
    ELSE outcome("ok", {},
            [c EXCEPT !.docs = [i \in DOMAIN c.docs \ {_id} |-> c.docs[i]],
                      !.dirty = c.dirty \ {_id},
                      !.requires_flush = TRUE])

\* __delitem__ that takes an absent id for a deletion already done.
delitem_discarding(c, _id) ==
    IF ~c.is_open THEN outcome("RuntimeError", {}, c)
    ELSE outcome("ok", {},
            [c EXCEPT !.docs = [i \in DOMAIN c.docs \ {_id} |-> c.docs[i]],
                      !.indeces = _remove_from_indeces(c.indeces, _id),
                      !.dirty = c.dirty \ {_id},
                      !.requires_flush = TRUE])

\* Collection.__delitem__
__delitem__(c, _id) ==
    IF ~c.is_open THEN outcome("RuntimeError", {}, c)
    ELSE IF _id \notin DOMAIN c.docs THEN outcome("KeyError", {}, c)
    ELSE outcome("ok", {},
            [c EXCEPT !.docs = [i \in DOMAIN c.docs \ {_id} |-> c.docs[i]],
                      !.indeces = _remove_from_indeces(c.indeces, _id),
                      !.dirty = c.dirty \ {_id},
                      !.requires_flush = TRUE])

\* Collection.clear (self._docs.clear() on the None of a closed collection
\* raises AttributeError)
clear(c) ==
    IF ~c.is_open THEN outcome("AttributeError", {}, c)
    ELSE outcome("ok", {},
            [c EXCEPT !.docs = EmptyFcn, !.indeces = EmptyFcn, !.dirty = {},
                      !.requires_flush = TRUE])

\* Collection.update: the documents are set one by one and the first failure
\* ends the call, the earlier ones set.
RECURSIVE update(_, _)
update(c, ds) ==
    IF Len(ds) = 0 THEN {outcome("ok", {}, c)}
    ELSE UNION {IF o.status # "ok" THEN {o} ELSE update(o.self, Tail(ds)) :
                   o \in insert_one(c, ds[1])}

\* Collection._find with its _assert_open, on the object
find(c, filter, limit) ==
    IF ~c.is_open THEN {outcome("RuntimeError", {}, c)}
    ELSE {outcome(o.status, o.ids, [c EXCEPT !.indeces = o.indeces, !.dirty = o.dirty]) :
             o \in _find(c.docs, c.dirty, c.indeces, filter, limit)}

\* Collection.find_one: the first document of find(filter, limit=1), fetched
\* with __getitem__, or None when the result is empty; ids holds the id of the
\* document returned.
find_one(c, filter) ==
    {IF o.status = "ok" /\ ~(o.ids \subseteq DOMAIN o.self.docs)
     THEN outcome("KeyError", {}, o.self)
     ELSE o : o \in find(c, filter, 1)}

\* Collection.__getitem__: self._docs[_id].copy(); ids holds the id of the
\* document returned.
__getitem__(c, _id) ==
    IF ~c.is_open THEN outcome("RuntimeError", {}, c)
    ELSE IF _id \notin DOMAIN c.docs THEN outcome("KeyError", {}, c)
    ELSE outcome("ok", {_id}, c)

\* An assignment made by the caller inside the document that __getitem__
\* returned, at the path nodes. dict.copy() is shallow: the dict returned is a
\* new one, the values in it are the objects the table holds. An assignment to
\* a top-level field changes the copy alone, an assignment below it changes the
\* object shared with the stored document.
\* v[n1][n2]... = new, on the objects v is made of.
RECURSIVE assign_at(_, _, _)
assign_at(v, nodes, new) ==
    IF Len(nodes) = 0 THEN new
    ELSE VMap(Put(v[2], nodes[1], assign_at(v[2][nodes[1]], Tail(nodes), new)))

\* d[n1][n2]... can be assigned to: every segment but the last is a mapping
\* holding the next.
RECURSIVE has_path(_, _)
has_path(v, nodes) ==
    IF Len(nodes) = 0 THEN TRUE
    ELSE IF v[1] = "map" /\ nodes[1] \in DOMAIN v[2]
         THEN has_path(v[2][nodes[1]], Tail(nodes))
         ELSE FALSE

\* d = self._docs[_id].copy(); d[n1][n2]... = new. The copy is a new mapping
\* whose values are the objects the stored document holds: an assignment to a
\* top-level field stays in the copy, a deeper one lands in the stored document.
assign_in_copy(c, _id, nodes, new) ==
    IF Len(nodes) <= 1 THEN c
    ELSE [c EXCEPT !.docs = Put(c.docs, _id,
                      Put(c.docs[_id], nodes[1],
                          assign_at(c.docs[_id][nodes[1]], Tail(nodes), new)))]

\* Collection.__contains__: _id in self._docs, with no _assert_open; on the None
\* of a closed collection the membership test raises TypeError.
__contains__(c, _id) ==
    IF ~c.is_open THEN outcome("TypeError", {}, c)
    ELSE outcome("ok", {_id} \cap DOMAIN c.docs, c)

\* len(filter) == 1 and self.primary_key in filter
pk_only(filter) ==
    filter[1] = "dict" /\ Len(filter[2]) = 1 /\ filter[2][1][1] = primary_key

\* Collection.replace_one
replace_one(c, filter, replacement, upsert) ==
    IF ~c.is_open THEN {outcome("RuntimeError", {}, c)}
    ELSE IF filter = None THEN {outcome("TypeError", {}, c)}
    ELSE IF pk_only(filter) THEN {__setitem__(c, filter[2][1][2], replacement)}
    ELSE UNION {
        IF f.status # "ok" THEN {f}
        ELSE IF f.ids # {}
        THEN {__setitem__(f.self, VStr(i), replacement) : i \in f.ids}
        ELSE IF upsert THEN {[o EXCEPT !.ids = {}] : o \in insert_one(f.self, replacement)}
        ELSE {f}
        : f \in find(c, filter, 0)}

\* for _id in to_delete: del self[_id]
RECURSIVE delete_all(_, _)
delete_all(c, ids) ==
    IF ids = {} THEN outcome("ok", {}, c)
    ELSE LET i == CHOOSE j \in ids : TRUE
             o == __delitem__(c, i)
         IN  IF o.status # "ok" THEN o ELSE delete_all(o.self, ids \ {i})

\* Collection.delete_many (limit 0) and Collection.delete_one (limit 1)
delete_found(c, filter, limit) ==
    {IF f.status # "ok" THEN f ELSE [delete_all(f.self, f.ids) EXCEPT !.ids = f.ids] :
        f \in find(c, filter, limit)}

delete_many(c, filter) == delete_found(c, filter, 0)

delete_one(c, filter) == delete_found(c, filter, 1)

\* Collection.index on the object (it does not assert that the collection is
\* open: building an index of a closed one raises AttributeError on None)
index_of(c, key, build) ==
    IF ~c.is_open /\ key # primary_key /\ build THEN {outcome("AttributeError", {}, c)}
    ELSE {outcome(o.status, {}, [c EXCEPT !.indeces = o.indeces, !.dirty = o.dirty]) :
             o \in index(c.docs, c.dirty, c.indeces, key, build)}

----------------------------------------------------------------------------
\* The backing file: a sequence of lines, one JSON document each, and the
\* position of the stream in it.

\* json.dumps(doc) + '\n', and json.loads(line): the text of a line is
\* determined by the document it was written from.
json_line(doc) == <<"json", json_roundtrip(VMap(doc))[2]>>
json_loads(line) == line[2]

\* The orders in which a set of ids can be iterated.
RECURSIVE Orders(_)
Orders(s) ==
    IF s = {} THEN {<<>>}
    ELSE UNION {{<<i>> \o q : q \in Orders(s \ {i})} : i \in s}

\* file.truncate(): the file is cut at the position of the stream.
truncate(lines, pos) == SubSeq(lines, 1, Min(pos, Len(lines)))

\* Collection.dump(file): one line per document, in the order of the dict.
dump(D, lines) ==
    {lines \o [j \in DOMAIN q |-> json_line(D[q[j]])] : q \in Orders(DOMAIN D)}

\* Collection.flush on the object and its file f = [lines, pos, state]. The
\* file may refuse the write: truncate() raises io.UnsupportedOperation (an
\* OSError) on a file not open for writing, before anything is written.
flush(c, f) ==
    IF ~c.is_open THEN {[status |-> "RuntimeError", self |-> c, file |-> f]}
    ELSE IF ~c.requires_flush \/ f.state = "None"
    THEN {[status |-> "ok", self |-> [c EXCEPT !.requires_flush = FALSE], file |-> f]}
    ELSE {[status |-> "ok", self |-> [c EXCEPT !.requires_flush = FALSE],
           file |-> [f EXCEPT !.lines = w, !.pos = Len(w)]] :
              w \in dump(c.docs, truncate(f.lines, f.pos))}
         \cup {[status |-> "OSError", self |-> c, file |-> f]}

\* close without the test of self._file: it flushes whenever it is called.
close_flushing_again(c, f) ==
    {[status |-> o.status,
      self |-> [o.self EXCEPT !.indeces = EmptyFcn, !.docs = EmptyFcn, !.is_open = FALSE],
      file |-> [o.file EXCEPT !.state = "None"]] : o \in flush(c, f)}

\* Collection.close
close(c, f) ==
    IF f.state = "None" THEN {[status |-> "ok", self |-> c, file |-> f]}
    ELSE {[status |-> o.status,
           self |-> [o.self EXCEPT !.indeces = EmptyFcn, !.docs = EmptyFcn,
                                   !.is_open = FALSE],
           file |-> [o.file EXCEPT !.state = "None"]] : o \in flush(c, f)}

\* Collection.__init__(docs) over the lines read: every document is set under
\* its own key, a later line replacing an earlier one of the same key; then the
\* flush flag is cleared and the indices refreshed.
RECURSIVE init_docs(_, _, _)
init_docs(c, lines, i) ==
    IF i > Len(lines)
    THEN [c EXCEPT !.requires_flush = FALSE, !.dirty = {}]
    ELSE LET doc == json_loads(lines[i])
         IN  init_docs(__setitem__(c, doc[primary_key], doc).self, lines, i + 1)

\* Collection.open / Collection._open on a file already holding lines (mode
\* 'a+'): the lines are read to the end, where the stream then stands.
open(lines) ==
    [self |-> init_docs([docs |-> EmptyFcn, is_open |-> TRUE, dirty |-> {},
                         indeces |-> EmptyFcn, requires_flush |-> FALSE], lines, 1),
     file |-> [lines |-> lines, pos |-> Len(lines), state |-> "open"]]

TheFile == [lines |-> disk, pos |-> file_pos, state |-> file]

----------------------------------------------------------------------------
\* The arguments the calls are made with

B_x1z1 == [x |-> VInt(1), z |-> VInt(1)]
B_x1z2 == [x |-> VInt(1), z |-> VInt(2)]
B_x2z1 == [x |-> VInt(2), z |-> VInt(1)]
B_xy1 == [x |-> VMap([y |-> VInt(1)])]
B_xyL == [x |-> VMap([y |-> VTuple(<<VInt(1), VInt(2)>>)]), z |-> VInt(1)]
B_dot == [k \in {"x.y", "z"} |-> VInt(1)]

\* a document that brings its own primary key
Keyed(k, body) == Put(body, primary_key, k)

F_x1 == VDict(<< <<"x", VInt(1)>> >>)
F_z1 == VDict(<< <<"z", VInt(1)>> >>)
F_x1z1 == VDict(<< <<"x", VInt(1)>>, <<"z", VInt(1)>> >>)
F_xy1 == VDict(<< <<"x", VDict(<< <<"y", VInt(1)>> >>)>> >>)
F_xyL == VDict(<< <<"x", VDict(<< <<"y", VTuple(<<VInt(1), VInt(2)>>)>> >>)>> >>)
F_z1xy1 == VDict(<< <<"z", VInt(1)>>, <<"x", VDict(<< <<"y", VInt(1)>> >>)>> >>)
F_empty == VDict(<<>>)
F_id(i) == VDict(<< <<primary_key, VStr(i)>> >>)
F_id_z1(i) == VDict(<< <<primary_key, VStr(i)>>, <<"z", VInt(1)>> >>)

----------------------------------------------------------------------------
\* The calls

Ret(op, status, key, filter, limit, ids) ==
    [op |-> op, status |-> status, key |-> key, filter |-> filter, limit |-> limit,
     ids |-> ids]

Becomes(c) ==
    /\ docs' = c.docs
    /\ is_open' = c.is_open
    /\ dirty' = c.dirty
    /\ indeces' = c.indeces
    /\ requires_flush' = c.requires_flush
    /\ UNCHANGED <<h5s, pandas>>

\* H5Store(filename), on a file that does not exist yet
NewStore == [_file |-> "None", root |-> EmptyFcn]

InitCollection ==
    /\ docs = EmptyFcn
    /\ is_open = TRUE
    /\ dirty = {}
    /\ indeces = EmptyFcn
    /\ requires_flush = FALSE
    /\ file = "open"
    /\ file_pos = 0
    /\ disk = <<>>
    /\ ret = Ret("init", "ok", "", None, 0, {})
    /\ h5s = NewStore

\* No call on a Collection reaches h5store.py: the runs on collections are
\* taken with pandas installed.
Init == InitCollection /\ pandas = TRUE

SetItem(keys, ds) ==
    \E k \in keys, d \in ds :
        LET o == __setitem__(Self, k, d)
        IN  /\ Becomes(o.self)
            /\ ret' = Ret("set", o.status, IF k[1] = "str" THEN k[2] ELSE "", None, 0, {})
            /\ UNCHANGED <<file, file_pos, disk>>

InsertOne(ds) ==
    \E d \in ds : \E o \in insert_one(Self, d) :
        /\ Becomes(o.self)
        /\ ret' = Ret("insert_one", o.status, "", None, 0, o.ids)
        /\ UNCHANGED <<file, file_pos, disk>>

DelItem ==
    \E i \in Ids :
        LET o == __delitem__(Self, i)
        IN  /\ Becomes(o.self)
            /\ ret' = Ret("del", o.status, i, None, 0, {})
            /\ UNCHANGED <<file, file_pos, disk>>

Clear ==
    LET o == clear(Self)
    IN  /\ Becomes(o.self)
        /\ ret' = Ret("clear", o.status, "", None, 0, {})
        /\ UNCHANGED <<file, file_pos, disk>>

Update(lists) ==
    \E ds \in lists : \E o \in update(Self, ds) :
        /\ Becomes(o.self)
        /\ ret' = Ret("update", o.status, "", None, 0, {})
        /\ UNCHANGED <<file, file_pos, disk>>

Find(filters, limits) ==
    \E f \in filters, n \in limits : \E o \in find(Self, f, n) :
        /\ Becomes(o.self)
        /\ ret' = Ret("find", o.status, "", f, n, o.ids)
        /\ UNCHANGED <<file, file_pos, disk>>

GetItem ==
    \E i \in Ids :
        LET o == __getitem__(Self, i)
        IN  /\ Becomes(o.self)
            /\ ret' = Ret("get", o.status, i, None, 0, o.ids)
            /\ UNCHANGED <<file, file_pos, disk>>

\* d = collection[i]; then an assignment in d at a path that exists in it
AssignInGot(paths, values) ==
    \E i \in DOMAIN docs, nodes \in paths, new \in values :
        /\ is_open
        /\ has_path(VMap(docs[i]), nodes)
        /\ Becomes(assign_in_copy(Self, i, nodes, new))
        /\ ret' = Ret("assign_in_got", "ok", i, None, Len(nodes), {i})
        /\ UNCHANGED <<file, file_pos, disk>>

FindOne(filters) ==
    \E f \in filters : \E o \in find_one(Self, f) :
        /\ Becomes(o.self)
        /\ ret' = Ret("find_one", o.status, "", f, 1, o.ids)
        /\ UNCHANGED <<file, file_pos, disk>>

Index(keys) ==
    \E k \in keys, build \in BOOLEAN : \E o \in index_of(Self, k, build) :
        /\ Becomes(o.self)
        /\ ret' = Ret(IF build THEN "index_build" ELSE "index", o.status, k, None, 0, {})
        /\ UNCHANGED <<file, file_pos, disk>>

ReplaceOne(filters, ds) ==
    \E f \in filters, d \in ds, upsert \in BOOLEAN :
        \E o \in replace_one(Self, f, d, upsert) :
            /\ Becomes(o.self)
            /\ ret' = Ret("replace_one", o.status, IF upsert THEN "upsert" ELSE "", f, 0, {})
            /\ UNCHANGED <<file, file_pos, disk>>

DeleteMany(filters) ==
    \E f \in filters : \E o \in delete_many(Self, f) :
        /\ Becomes(o.self)
        /\ ret' = Ret("delete_many", o.status, "", f, 0, o.ids)
        /\ UNCHANGED <<file, file_pos, disk>>

DeleteOne(filters) ==
    \E f \in filters : \E o \in delete_one(Self, f) :
        /\ Becomes(o.self)
        /\ ret' = Ret("delete_one", o.status, "", f, 1, o.ids)
        /\ UNCHANGED <<file, file_pos, disk>>

----------------------------------------------------------------------------
\* The table and its indices under documents of every shape: flat fields, a
\* nested mapping, and a key with a literal dot.

ShapeDocs == {B_x1z2, B_xy1, B_xyL, B_dot}
ShapeFilters == {F_x1, F_z1, F_xy1, F_xyL, F_z1xy1}
ShapeKeys == {"x", "z", "x.y"}

Next ==
    \/ SetItem({VStr(i) : i \in Ids},
               ShapeDocs \cup {Keyed(VStr("a"), B_x1z2)})
    \/ InsertOne({B_xy1, Keyed(VStr("b"), B_dot), Keyed(VInt(7), B_x1z2)})
    \/ DelItem
    \/ Clear
    \/ Update({<<B_x1z2, Keyed(VStr("a"), B_xy1)>>})
    \/ Find(ShapeFilters, {0})
    \/ Index(ShapeKeys)
    \/ ReplaceOne({F_z1, F_id("b")}, {B_x1z2, Keyed(VStr("a"), B_dot)})
    \/ DeleteMany({F_z1})
    \/ DeleteOne({F_xy1})

Spec == Init /\ [][Next]_vars

----------------------------------------------------------------------------
\* Queries with limits and with the primary key in the filter, on flat documents.

MaxLimit == 2

FlatDocs == {B_x1z1, B_x1z2, B_x2z1}
QueryFilters ==
    {None, F_empty, F_x1, F_x1z1} \cup {F_id(i) : i \in Ids} \cup {F_id_z1(i) : i \in Ids}

NextQuery ==
    \/ SetItem({VStr(i) : i \in Ids}, FlatDocs)
    \/ DelItem
    \/ Find(QueryFilters, 0 .. MaxLimit)

SpecQuery == Init /\ [][NextQuery]_vars

----------------------------------------------------------------------------
\* The life of the backing file: mutations, flushes, close, and opening the
\* resource again with a new collection.

MaxFileLines == 4

BecomesFile(f) ==
    /\ file' = f.state
    /\ file_pos' = f.pos
    /\ disk' = f.lines

Flush ==
    \E o \in flush(Self, TheFile) :
        /\ Len(o.file.lines) <= MaxFileLines
        /\ Becomes(o.self)
        /\ BecomesFile(o.file)
        /\ ret' = Ret("flush", o.status, IF is_open /\ requires_flush THEN "rewrite" ELSE "",
                      None, 0, {})

Close ==
    \E o \in close(Self, TheFile) :
        /\ Len(o.file.lines) <= MaxFileLines
        /\ Becomes(o.self)
        /\ BecomesFile(o.file)
        /\ ret' = Ret("close", o.status, IF file = "None" THEN "again" ELSE "", None, 0, {})

\* A new collection is opened on the resource once the one that owned it is
\* closed.
Open ==
    /\ file = "None"
    /\ LET o == open(disk)
       IN  /\ Becomes(o.self)
           /\ BecomesFile(o.file)
           /\ ret' = Ret("open", "ok", "", None, 0, {})

NextFile ==
    \/ SetItem({VStr(i) : i \in Ids}, {B_x1z1, B_x2z1})
    \/ DelItem
    \/ Clear
    \/ Flush
    \/ Close
    \/ Open

SpecFile == Init /\ [][NextFile]_vars

----------------------------------------------------------------------------
\* What the claims speak of

\* The values a document holds at a dotted path: the value reached by walking
\* the segments through nested mappings, if the walk gets there.
RECURSIVE ValuesAt(_, _)
ValuesAt(v, nodes) ==
    IF Len(nodes) = 0 THEN {v}
    ELSE IF v[1] = "map" /\ nodes[1] \in DOMAIN v[2]
         THEN ValuesAt(v[2][nodes[1]], Tail(nodes))
         ELSE {}

\* The value under the literal key 'a.b' of a path of several segments (the
\* compatibility fallback of index building).
LiteralAt(doc, key) ==
    IF Len(split_dot(key)) > 1 /\ key \in DOMAIN doc THEN {doc[key]} ELSE {}

\* The ids whose document has the encoded value V at path P.
IdsAt(P, V) ==
    {i \in DOMAIN docs :
        \E v \in ValuesAt(VMap(docs[i]), split_dot(P)) : _encode_tree(v) = V}

\* The same, counting the literal key too.
IdsAtOrLiteral(P, V) ==
    {i \in DOMAIN docs :
        \E v \in ValuesAt(VMap(docs[i]), split_dot(P)) \cup LiteralAt(docs[i], P) :
            _encode_tree(v) = V}

Bucket(P, V) == IF V \in DOMAIN indeces[P] THEN indeces[P][V] ELSE {}

\* The encoded values some document holds at P, nested or under the literal key.
ValuesOf(P) ==
    {_encode_tree(v) : v \in UNION {ValuesAt(VMap(docs[i]), split_dot(P))
                                      \cup LiteralAt(docs[i], P) : i \in DOMAIN docs}}

\* The terms of a filter without its primary key.
Terms(f) ==
    traverse_filter(VDict(SelectSeq(json_roundtrip(f)[2], LAMBDA p : p[1] # primary_key)))

\* The ids of the documents that satisfy every term of a filter on fields.
Matches(f) ==
    {i \in DOMAIN docs :
        \A j \in DOMAIN Terms(f) : i \in IdsAtOrLiteral(Terms(f)[j][1], Terms(f)[j][2])}

\* A call that returned after refreshing the indices: index(P), or a find that
\* consulted an index.
RefreshPoint ==
    /\ ret.status = "ok"
    /\ \/ ret.op \in {"index", "index_build"}
       \/ ret.op = "find" /\ ret.filter # None /\ Len(Terms(ret.filter)) > 0

----------------------------------------------------------------------------
\* C1: find(F, limit 0) for a filter F on fields other than the primary key
\* returns exactly the ids of the documents whose value at every path of F is
\* the filter's value. "Value at a path" is read here the way most favourable to
\* the code: the literal-key fallback counts, and values compare encoded.
C1_FindExact ==
    (ret.op = "find" /\ ret.limit = 0 /\ ret.filter \in ShapeFilters)
        => (ret.status = "ok" /\ ret.ids = Matches(ret.filter))

\* C2 as claimed: at every refresh point the dirty set is empty and every bucket
\* of every existing index holds exactly the ids whose document has that value
\* at the nested path.
C2_BucketsAreValuesAtPath ==
    RefreshPoint =>
        /\ dirty = {}
        /\ \A P \in DOMAIN indeces :
              \A V \in DOMAIN indeces[P] \cup ValuesOf(P) : Bucket(P, V) = IdsAt(P, V)

\* C2 amended: at every refresh point the dirty set is empty and every bucket of
\* every existing index holds exactly the ids whose document has that value at
\* the nested path or, for a path of several segments, under the literal dotted
\* key; and no bucket is empty.
C2_IndexConsistent ==
    RefreshPoint =>
        /\ dirty = {}
        /\ \A P \in DOMAIN indeces :
              /\ \A V \in DOMAIN indeces[P] \cup ValuesOf(P) :
                    Bucket(P, V) = IdsAtOrLiteral(P, V)
              /\ \A V \in DOMAIN indeces[P] : indeces[P][V] # {}

\* A find returned with two indices in place, one of them holding a document
\* under a bucket, after that document was indexed under its literal key.
C2_Witness ==
    /\ RefreshPoint
    /\ ret.op = "find"
    /\ Cardinality(DOMAIN indeces) >= 2
    /\ "x.y" \in DOMAIN indeces
    /\ \E i \in DOMAIN docs : "x.y" \in DOMAIN docs[i] /\ i \in Bucket("x.y", VInt(1))
    /\ \E i \in DOMAIN docs : "x.y" \notin DOMAIN docs[i]

\* C3: every id of the table maps to a document whose primary-key field is
\* that id.
C3_PrimaryKey ==
    is_open =>
        \A i \in DOMAIN docs :
            primary_key \in DOMAIN docs[i] /\ docs[i][primary_key] = VStr(i)

\* replace_one has just stored a replacement and the table holds two documents.
C3_Witness ==
    /\ ret.op = "replace_one"
    /\ ret.status = "ok"
    /\ requires_flush
    /\ Cardinality(DOMAIN docs) = 2

\* C6: right after a successful delete(id), id is in neither the table, find({}),
\* the dirty set nor any bucket of any index; and at any time every id a find
\* returns and every id in any bucket is an id of the table, so a deleted id is
\* not returned until it is set again.
C6_DeletionEager ==
    /\ (ret.op = "del" /\ ret.status = "ok") =>
          /\ ret.key \notin DOMAIN docs
          /\ ret.key \notin dirty
          /\ \A o \in find(Self, F_empty, 0) : ret.key \notin o.ids
          /\ \A P \in DOMAIN indeces : \A V \in DOMAIN indeces[P] :
                ret.key \notin indeces[P][V]
    /\ (ret.op = "find" /\ ret.status = "ok") => ret.ids \subseteq DOMAIN docs
    /\ \A P \in DOMAIN indeces : \A V \in DOMAIN indeces[P] :
          indeces[P][V] \subseteq DOMAIN docs

\* A document was deleted while indices exist and another document is dirty.
C6_Witness ==
    /\ ret.op = "del"
    /\ ret.status = "ok"
    /\ DOMAIN indeces # {}
    /\ \E P \in DOMAIN indeces : DOMAIN indeces[P] # {}
    /\ dirty # {}

\* C9: find of a two-term filter, limit 0, is the intersection of the finds of
\* its two terms, in every reachable state.
C9_Intersection ==
    \A t \in {<<F_z1xy1, F_z1, F_xy1>>} :
        \A o \in find(Self, t[1], 0), p \in find(Self, t[2], 0), q \in find(Self, t[3], 0) :
            /\ o.status = "ok"
            /\ p.status = "ok"
            /\ q.status = "ok"
            /\ o.ids = p.ids \cap q.ids

----------------------------------------------------------------------------
\* The ids that satisfy a filter in full: every document for the empty or
\* absent filter, else the documents that satisfy every term and have the
\* primary key the filter names, if it names one.
PkOf(f) ==
    {f[2][i][2][2] : i \in {j \in DOMAIN f[2] : f[2][j][1] = primary_key}}

FullMatches(f) ==
    IF f = None \/ Len(f[2]) = 0 THEN DOMAIN docs
    ELSE {i \in Matches(f) : PkOf(f) \subseteq {i}}

\* C7: find(filter, limit N > 0) returns exactly min(N, number of matches) ids,
\* and find(filter, limit 0) returns all matches; stated for the empty filter,
\* the absent one and the filters on fields (a filter naming the primary key is
\* C10's).
C7_LimitCount ==
    (ret.op = "find" /\ (ret.filter = None \/ PkOf(ret.filter) = {})) =>
        /\ ret.status = "ok"
        /\ ret.limit > 0 =>
              /\ Cardinality(ret.ids) <= ret.limit
              /\ Cardinality(ret.ids) = Min(ret.limit, Cardinality(FullMatches(ret.filter)))
        /\ ret.limit = 0 => ret.ids = FullMatches(ret.filter)

\* C8: with two or more terms and a limit N > 0, every id find returns is also
\* returned by find with limit 0 on the same filter, and satisfies every term;
\* stated for the filters whose terms are all on fields.
C8_LimitedIsTruncation ==
    (/\ ret.op = "find"
     /\ ret.status = "ok"
     /\ ret.limit > 0
     /\ ret.filter # None
     /\ PkOf(ret.filter) = {}
     /\ Len(Terms(ret.filter)) >= 2)
        => /\ \A o \in find(Self, ret.filter, 0) : o.status = "ok" /\ ret.ids \subseteq o.ids
           /\ ret.ids \subseteq FullMatches(ret.filter)

\* C10: with the primary key X in the filter, find does not fail and returns
\* {X} when document X exists and satisfies the other fields, and the empty set
\* otherwise.
C10_PrimaryKeyFilter ==
    (ret.op = "find" /\ ret.filter # None /\ PkOf(ret.filter) # {})
        => /\ ret.status = "ok"
           /\ ret.ids \subseteq PkOf(ret.filter)
           /\ ret.ids = FullMatches(ret.filter)

\* The lines a table is written as, in any order.
LinesOf(D) == {json_line(D[i]) : i \in DOMAIN D}

\* C4: after a flush that had mutations to write, the resource holds exactly one
\* line per document of the table and nothing else, and the flag is clear.
C4_FlushRewrites ==
    (ret.op = "flush" /\ ret.status = "ok" /\ ret.key = "rewrite")
        => /\ Len(disk) = Cardinality(DOMAIN docs)
           /\ {disk[j] : j \in DOMAIN disk} = LinesOf(docs)
           /\ ~requires_flush

\* C5: a collection opened from the resource right after a flush holds the
\* documents of the table that was flushed, by id and content.
C5_RoundTrip ==
    (ret.op = "flush" /\ ret.status = "ok") => open(disk).self.docs = docs

----------------------------------------------------------------------------
\* Edits through a filter: find_one, delete_many, delete_one and replace_one on
\* flat and nested documents.

EditDocs == {B_x1z1, B_x1z2, B_xy1}
EditFilters == {F_x1z1, F_xy1, F_id("a"), F_id_z1("a")}
Replacement == B_x2z1

NextEdit ==
    \/ SetItem({VStr(i) : i \in Ids}, EditDocs)
    \/ FindOne(EditFilters)
    \/ DeleteMany(EditFilters)
    \/ DeleteOne(EditFilters)
    \/ ReplaceOne(EditFilters, {Replacement})

SpecEdit == Init /\ [][NextEdit]_vars

\* C11: find_one(F) returns a document that satisfies every constraint of F when
\* one exists, and None, without raising, when none does.
C11_FindOne ==
    (ret.op = "find_one") =>
        /\ ret.status = "ok"
        /\ FullMatches(ret.filter) # {} =>
              Cardinality(ret.ids) = 1 /\ ret.ids \subseteq FullMatches(ret.filter)
        /\ FullMatches(ret.filter) = {} => ret.ids = {}

\* C12: delete_many(F) and delete_one(F) with a filter that matches no document,
\* a primary key that is not in the table included, complete without error and
\* leave the table as it was.
C12_DeleteNothing ==
    [][(ret'.op \in {"delete_many", "delete_one"} /\ FullMatches(ret'.filter) = {})
          => (ret'.status = "ok" /\ docs' = docs)]_vars

\* C13: after delete_many(F) the table holds exactly the documents that did not
\* match F before the call, unchanged, and find(F) is empty.
C13_DeleteManyFrame ==
    [][(ret'.op = "delete_many" /\ ret'.status = "ok")
          => /\ docs' = [i \in DOMAIN docs \ FullMatches(ret'.filter) |-> docs[i]]
             /\ \A o \in find(Self', ret'.filter, 0) : o.status = "ok" /\ o.ids = {}]_vars

\* C14: delete_one(F) removes at most one document, the document it removes
\* satisfied every constraint of F before the call, and the others are unchanged.
C14_DeleteOneFrame ==
    [][(ret'.op = "delete_one" /\ ret'.status = "ok")
          => /\ Cardinality(DOMAIN docs \ DOMAIN docs') <= 1
             /\ (DOMAIN docs \ DOMAIN docs') \subseteq FullMatches(ret'.filter)
             /\ \A i \in DOMAIN docs' : i \in DOMAIN docs /\ docs'[i] = docs[i]]_vars

\* C15: replace_one(F, doc, upsert=False) with a filter that matches no document
\* leaves the table as it was; stated for the filters that are not the primary
\* key alone (that one sets the document directly, creating it).
C15_ReplaceNothing ==
    [][(/\ ret'.op = "replace_one"
        /\ ret'.key = ""
        /\ ~pk_only(ret'.filter)
        /\ FullMatches(ret'.filter) = {})
          => docs' = docs]_vars

\* C16: replace_one(F, doc, upsert=True) with a filter that matches no document
\* inserts doc as one new document under a fresh id and leaves every stored
\* document unchanged; stated for the filters that are not the primary key alone.
C16_UpsertInserts ==
    [][(/\ ret'.op = "replace_one"
        /\ ret'.key = "upsert"
        /\ ~pk_only(ret'.filter)
        /\ FullMatches(ret'.filter) = {})
          => /\ ret'.status = "ok"
             /\ Cardinality(DOMAIN docs') = Cardinality(DOMAIN docs) + 1
             /\ \A i \in DOMAIN docs : i \in DOMAIN docs' /\ docs'[i] = docs[i]
             /\ \A i \in DOMAIN docs' \ DOMAIN docs :
                   docs'[i] = Keyed(VStr(i), Replacement)]_vars

\* C17: replace_one(F, doc) with a filter that is not the primary key alone and
\* matches a document, and a replacement without a primary key, replaces the
\* content of exactly one document that matched F under the same id; the other
\* documents and the length are unchanged and finds see the new content.
C17_ReplaceOneFrame ==
    [][(/\ ret'.op = "replace_one"
        /\ ~pk_only(ret'.filter)
        /\ FullMatches(ret'.filter) # {})
          => /\ ret'.status = "ok"
             /\ DOMAIN docs' = DOMAIN docs
             /\ \E i \in FullMatches(ret'.filter) :
                   /\ docs'[i] = Keyed(VStr(i), Replacement)
                   /\ \A j \in DOMAIN docs \ {i} : docs'[j] = docs[j]
             /\ \A o \in find(Self', F_x1z1, 0) :
                   o.status = "ok" =>
                      o.ids = {i \in DOMAIN docs' :
                                  docs'[i]["x"] = VInt(1) /\ "z" \in DOMAIN docs'[i]
                                  /\ docs'[i]["z"] = VInt(1)}]_vars

----------------------------------------------------------------------------
\* The closed collection

\* The outcomes of the calls a closed or open collection can be asked for, other
\* than close.
CallsOn(c) ==
    {__setitem__(c, VStr(i), d) : i \in Ids, d \in FlatDocs}
        \cup {__delitem__(c, i) : i \in Ids}
        \cup {__contains__(c, i) : i \in Ids}
        \cup {clear(c)}
        \cup insert_one(c, B_x1z1)
        \cup update(c, <<B_x1z1>>)
        \cup find(c, F_x1, 0)
        \cup find_one(c, F_x1)
        \cup replace_one(c, F_x1, B_x2z1, FALSE)
        \cup delete_one(c, F_x1)
        \cup delete_many(c, F_x1)
        \cup UNION {index_of(c, "x", build) : build \in BOOLEAN}
        \cup {outcome(o.status, {}, o.self) : o \in flush(c, TheFile)}

\* C18: after close(), every operation fails with the closed-collection error
\* (RuntimeError) and with nothing else.
C18_ClosedFails ==
    ~is_open =>
        /\ ret.op \in {"set", "del", "clear", "flush"} => ret.status = "RuntimeError"
        /\ \A o \in CallsOn(Self) : o.status = "RuntimeError"

\* C19: closed is absorbing and close is idempotent: no call on a closed
\* collection leaves it open, and close() on a closed collection raises nothing
\* and changes neither the collection nor the released file.
C19_ClosedAbsorbing ==
    ~is_open =>
        /\ file = "None"
        /\ \A o \in CallsOn(Self) : ~o.self.is_open
        /\ close(Self, TheFile) = {[status |-> "ok", self |-> Self, file |-> TheFile]}
        /\ (ret.op = "close" /\ ret.key = "again") => ret.status = "ok"

\* close() has been called on a collection already closed, whose file holds
\* lines.
C19_Witness ==
    /\ ~is_open
    /\ ret.op = "close"
    /\ ret.key = "again"
    /\ ret.status = "ok"
    /\ Len(disk) > 0

\* C20: close() on an open collection releases the file and leaves the
\* collection closed on every path, the failing flush included, and when the
\* flush succeeds the pending mutations are in the file: read again, it yields
\* the table as it was at the close, deletions included.
C20_CloseReleases ==
    [][(is_open /\ ret'.op = "close")
          => /\ ~is_open'
             /\ file' = "None"
             /\ docs' = EmptyFcn
             /\ indeces' = EmptyFcn
             /\ (ret'.status = "ok" /\ requires_flush) =>
                   open(disk').self.docs = docs]_vars

----------------------------------------------------------------------------
\* Access by id and the calls that are refused: keys that are not strings,
\* documents that carry another key, ids that are absent, filters with a
\* sequence, indices that were not built; and writes of the caller in a document
\* it got.

B_xL == [x |-> VTuple(<<VInt(1), VInt(2)>>)]
B_xyText == [x |-> VMap([y |-> VStr("[1, 2]")])]
F_xL == VDict(<< <<"x", VTuple(<<VInt(1), VInt(2)>>)>> >>)
F_id7 == VDict(<< <<primary_key, VInt(7)>> >>)

AccessKeys == {VStr(i) : i \in Ids} \cup {VInt(7)}
AccessDocs == {B_x1z1, B_xy1}
Mismatched == Keyed(VStr("a"), B_x2z1)
Unkeyable == Keyed(VInt(7), B_x2z1)

NextAccess ==
    \/ SetItem(AccessKeys, AccessDocs \cup {Mismatched})
    \/ InsertOne({Unkeyable})
    \/ ReplaceOne({F_z1, F_id("b"), F_id7}, {Mismatched})
    \/ DelItem
    \/ GetItem
    \/ AssignInGot({<<"x">>, <<"x", "y">>}, {VInt(2)})
    \/ Index({"x.y", primary_key})

SpecAccess == Init /\ [][NextAccess]_vars

----------------------------------------------------------------------------
\* Filters that hold a sequence, on documents that hold sequences

ListDocs == {B_xL, B_xyL, B_xyText}
ListFilters == {F_xL, F_xyL}

NextList ==
    \/ SetItem({VStr(i) : i \in Ids}, ListDocs)
    \/ Find(ListFilters, {0})
    \/ FindOne({F_xL})
    \/ DeleteOne({F_xL})
    \/ DeleteMany({F_xL})

SpecList == Init /\ [][NextList]_vars

----------------------------------------------------------------------------
\* C21: flush() on an open collection with nothing to write leaves the resource
\* as it is, and a flush after a successful set, delete or clear rewrites it:
\* the resource, read again, then yields the table it was flushed from.
C21_FlushWhenMutated ==
    [][(is_open /\ ret'.op = "flush" /\ ret'.status = "ok")
          => IF requires_flush
             THEN /\ open(disk').self.docs = docs
                  /\ ~requires_flush'
             ELSE disk' = disk]_vars

\* The part of C21 that holds: a flush with nothing to write touches nothing,
\* and every successful set, delete or clear leaves the flag set.
C21_NothingToWrite ==
    [][/\ (is_open /\ ret'.op = "flush" /\ ~requires_flush)
            => (disk' = disk /\ ret'.status = "ok" /\ ~requires_flush')
       /\ (ret'.op \in {"set", "del", "clear"} /\ ret'.status = "ok")
            => requires_flush']_vars

----------------------------------------------------------------------------
\* The documents and keys handed to set in SpecAccess.
SetDocs == AccessDocs \cup {Mismatched, Unkeyable}

\* set(k, d) is refused for its key, or for the key the document carries.
BadKey(k) == k[1] # "str"
OtherKey(k, d) == k[1] = "str" /\ primary_key \in DOMAIN d /\ d[primary_key] # k

----------------------------------------------------------------------------
\* C23: on an open collection, get(id) and delete(id) for an id that is not in
\* the table fail with KeyError, and the table, the indices, the dirty set and
\* the requires-flush flag are what they were.
C23_AbsentIdFails ==
    is_open =>
        \A i \in Ids \ DOMAIN docs :
            /\ __getitem__(Self, i) = outcome("KeyError", {}, Self)
            /\ __delitem__(Self, i) = outcome("KeyError", {}, Self)

\* get or delete of an absent id has failed on a collection that holds another
\* document, an index and a dirty id.
C23_Witness ==
    /\ is_open
    /\ ret.op \in {"get", "del"}
    /\ ret.status = "KeyError"
    /\ ret.key \notin DOMAIN docs
    /\ docs # EmptyFcn
    /\ indeces # EmptyFcn
    /\ dirty # {}

----------------------------------------------------------------------------
\* C24: find, find_one, delete_one and delete_many with a filter whose top-level
\* field holds a sequence, {x: [1, 2]}, fail with ValueError before any index is
\* built or refreshed: the indices and the dirty set are what they were.
C24_SequenceRejected ==
    [][(is_open /\ ret'.op \in {"find", "find_one", "delete_one", "delete_many"}
          /\ ret'.filter = F_xL)
          => /\ ret'.status = "ValueError"
             /\ indeces' = indeces
             /\ dirty' = dirty
             /\ docs' = docs]_vars

\* The documents whose value at x.y is the list [1, 2].
HoldList == {i \in DOMAIN docs : ValuesAt(VMap(docs[i]), <<"x", "y">>)
                                     = {VList(<<VInt(1), VInt(2)>>)}}

\* C25: a find with the filter {x: {y: [1, 2]}} that returns, returns exactly
\* the ids of the documents whose value at x.y is the list [1, 2].
C25_ListLeaf ==
    (ret.op = "find" /\ ret.filter = F_xyL /\ ret.status = "ok") => ret.ids = HoldList

----------------------------------------------------------------------------
\* C26: index(P) without auto-build fails with KeyError for the primary key and
\* for a path that has no index, creating none and leaving the dirty set alone;
\* for a path whose index has been built it succeeds and the index it returns
\* has been refreshed, so no id is left dirty.
C26_IndexWithoutBuild ==
    [][(ret'.op = "index")
          => IF ret'.key = primary_key \/ ret'.key \notin DOMAIN indeces
             THEN /\ ret'.status = "KeyError"
                  /\ indeces' = indeces
                  /\ dirty' = dirty
             ELSE /\ ret'.status = "ok"
                  /\ dirty' = {}
                  /\ DOMAIN indeces' = DOMAIN indeces]_vars

\* The part of C26 that holds: the refusals.
C26_NoSuchIndex ==
    [][(ret'.op = "index" /\ (ret'.key = primary_key \/ ret'.key \notin DOMAIN indeces))
          => /\ ret'.status = "KeyError"
             /\ indeces' = indeces
             /\ dirty' = dirty
             /\ docs' = docs]_vars

----------------------------------------------------------------------------
\* C27: building or refreshing the index for the dotted path x.y, through
\* index('x.y', build=True) or a find on x.y, succeeds whatever the stored
\* documents look like: a document without a value at x.y is left out, and
\* every document with a leaf there is in the bucket of its value.
C27_ShapeNeverFails ==
    (\/ ret.op = "index_build" /\ ret.key = "x.y"
     \/ ret.op = "find" /\ ret.filter \in {F_xy1, F_xyL})
        => /\ ret.status = "ok"
           /\ \A V \in ValuesOf("x.y") : Bucket("x.y", V) = IdsAtOrLiteral("x.y", V)

----------------------------------------------------------------------------
\* C28: the document returned by get(id) is isolated from the table: an
\* assignment in it, to a top-level field or inside a nested mapping, leaves
\* the stored document as it was last set.
C28_GetIsolated ==
    [][(ret'.op = "assign_in_got") => docs' = docs]_vars

----------------------------------------------------------------------------
\* H5Store (signac/core/h5store.py)
\*
\* A group of the HDF5 file is a function from keys to nodes:
\*   <<"dataset", v>>  a dataset holding v
\*   <<"null_dataset">>       the dataset of shape None that stands for None
\*   <<"group", g>>    a subgroup
\* An outcome of a call is [status, value, self]: what it raised or "ok", what
\* it returned, and the store after it.

\* An instance of a class h5py has no HDF5 type for.
Foo == <<"object", "Foo">>

Without(grp, key) == [k \in DOMAIN grp \ {key} |-> grp[k]]

h5outcome(status, value, s) == [status |-> status, value |-> value, self |-> s]

\* _is_pandas_type(value): defined only when pandas was imported; no value
\* here is a pandas object.
_is_pandas_type(value) == IF pandas THEN <<"ok", FALSE>> ELSE <<"NameError">>

\* grp[key] = value of h5py, for a value that is neither a mapping nor None.
h5py_setitem(grp, key, value) ==
    IF value = Foo THEN [status |-> "TypeError", grp |-> grp]
    ELSE [status |-> "ok", grp |-> Put(grp, key, <<"dataset", value>>)]

\* _h5set(file, grp, key, value, path): the status and the group afterwards.
RECURSIVE _h5set(_, _, _)
RECURSIVE h5set_items(_, _)
h5set_items(subgrp, items) ==
    IF items = <<>> THEN [status |-> "ok", grp |-> subgrp]
    ELSE LET r == _h5set(subgrp, items[1][1], items[1][2])
         IN  IF r.status # "ok" THEN r ELSE h5set_items(r.grp, Tail(items))

_h5set(grp, key, value) ==
    LET g == Without(grp, key)
    IN  IF value[1] = "dict"
        THEN LET r == h5set_items(EmptyFcn, value[2])
             IN  [status |-> r.status, grp |-> Put(g, key, <<"group", r.grp>>)]
        ELSE IF value = None
        THEN [status |-> "ok", grp |-> Put(g, key, <<"null_dataset">>)]
        ELSE IF _is_pandas_type(value)[1] # "ok"
        THEN [status |-> "NameError", grp |-> g]
        ELSE h5py_setitem(g, key, value)

\* _h5get(file, grp, key, path), for a key the group holds
_h5get(grp, key) ==
    IF grp[key][1] = "null_dataset" THEN None
    ELSE IF grp[key][1] = "dataset" THEN grp[key][2]
    ELSE <<"H5Group", key>>

\* H5Store.open that creates the file anew (h5py's mode 'w').
H5Store_open_truncating(s) ==
    IF s._file = "None" THEN h5outcome("ok", None, [_file |-> "File", root |-> EmptyFcn])
    ELSE h5outcome("ok", None, s)

\* H5Store.open. h5py.File(filename) is called without a mode; the h5py this
\* module is written for (datasets still have .value) then opens the file for
\* reading and writing and creates it when it does not exist.
H5Store_open(s) ==
    IF s._file = "None" THEN h5outcome("ok", None, [s EXCEPT !._file = "File"])
    ELSE h5outcome("ok", None, s)

\* H5Store.close: on a store that is not open, None.close() raises the
\* AttributeError that close catches.
H5Store_close(s) ==
    IF s._file = "None" THEN h5outcome("ok", None, s)
    ELSE h5outcome("ok", None, [s EXCEPT !._file = "None"])

\* H5Store.__enter__ and H5Store.__exit__
H5Store__enter__(s) == H5Store_open(s)
H5Store__exit__(s) == H5Store_close(s)

\* H5Store.flush
H5Store_flush(s) ==
    IF s._file = "None" THEN h5outcome("AttributeError", None, s)
    ELSE h5outcome("ok", None, s)

\* H5Store.__getitem__, for a key that is a string
H5Store__getitem__(s, key) ==
    IF s._file = "None" THEN h5outcome("RuntimeError", None, s)
    ELSE IF key \notin DOMAIN s.root THEN h5outcome("KeyError", None, s)
    ELSE h5outcome("ok", _h5get(s.root, key), s)

\* H5Store.__setitem__ that opens the file of a store that is not open.
H5Store_setitem_opening(s, key, value) ==
    LET r == _h5set(s.root, key, value)
    IN  h5outcome(r.status, IF r.status = "ok" THEN value ELSE None,
                  [_file |-> "File", root |-> r.grp])

\* H5Store.__setitem__
H5Store__setitem__(s, key, value) ==
    IF s._file = "None" THEN h5outcome("RuntimeError", None, s)
    ELSE LET r == _h5set(s.root, key, value)
         IN  h5outcome(r.status, IF r.status = "ok" THEN value ELSE None,
                       [s EXCEPT !.root = r.grp])

\* H5Store.__delitem__
H5Store__delitem__(s, key) ==
    IF s._file = "None" THEN h5outcome("RuntimeError", None, s)
    ELSE IF key \notin DOMAIN s.root THEN h5outcome("KeyError", None, s)
    ELSE h5outcome("ok", None, [s EXCEPT !.root = Without(s.root, key)])

\* for key in h5s: the generator of H5Store.__iter__ run to its end (its body,
\* the check that the store is open included, starts with the first next()).
H5Store__iter__(s) ==
    IF s._file = "None" THEN h5outcome("RuntimeError", None, s)
    ELSE h5outcome("ok", DOMAIN s.root, s)

\* H5Store.__len__
H5Store__len__(s) ==
    IF s._file = "None" THEN h5outcome("RuntimeError", None, s)
    ELSE h5outcome("ok", Cardinality(DOMAIN s.root), s)

H5Keys == {"k", "k2"}
H5Values == {VStr("d"), None, VDict(<< <<"a", VInt(1)>> >>), Foo}

\* The store after a call on it: the collection is not involved.
H5Becomes(s) ==
    /\ h5s' = s
    /\ UNCHANGED <<docs, is_open, dirty, indeces, requires_flush, file, file_pos, disk,
                   pandas>>

\* ret.key tells an open() or close() that found the store already so.
H5Open ==
    LET o == H5Store_open(h5s)
    IN  /\ H5Becomes(o.self)
        /\ ret' = Ret("h5_open", o.status, IF h5s._file = "None" THEN "" ELSE "again",
                      None, 0, {})

H5Close ==
    LET o == H5Store_close(h5s)
    IN  /\ H5Becomes(o.self)
        /\ ret' = Ret("h5_close", o.status, IF h5s._file = "None" THEN "again" ELSE "",
                      None, 0, {})

\* with h5s: ... is H5Enter, the calls of the body, H5Exit.
H5Enter ==
    LET o == H5Store__enter__(h5s)
    IN  /\ H5Becomes(o.self)
        /\ ret' = Ret("h5_enter", o.status, IF h5s._file = "None" THEN "" ELSE "again",
                      None, 0, {})

H5Exit ==
    LET o == H5Store__exit__(h5s)
    IN  /\ H5Becomes(o.self)
        /\ ret' = Ret("h5_exit", o.status, IF h5s._file = "None" THEN "again" ELSE "",
                      None, 0, {})

H5Flush ==
    LET o == H5Store_flush(h5s)
    IN  /\ H5Becomes(o.self)
        /\ ret' = Ret("h5_flush", o.status, "", None, 0, {})

H5GetItem ==
    \E k \in H5Keys :
        LET o == H5Store__getitem__(h5s, k)
        IN  /\ H5Becomes(o.self)
            /\ ret' = Ret("h5_get", o.status, k, None, 0, {o.value})

\* ret.filter holds the value assigned.
H5SetItem ==
    \E k \in H5Keys, v \in H5Values :
        LET o == H5Store__setitem__(h5s, k, v)
        IN  /\ H5Becomes(o.self)
            /\ ret' = Ret("h5_set", o.status, k, v, 0, {})

H5DelItem ==
    \E k \in H5Keys :
        LET o == H5Store__delitem__(h5s, k)
        IN  /\ H5Becomes(o.self)
            /\ ret' = Ret("h5_del", o.status, k, None, 0, {})

H5Iter ==
    LET o == H5Store__iter__(h5s)
    IN  /\ H5Becomes(o.self)
        /\ ret' = Ret("h5_iter", o.status, "", None, 0,
                      IF o.status = "ok" THEN o.value ELSE {})

H5Len ==
    LET o == H5Store__len__(h5s)
    IN  /\ H5Becomes(o.self)
        /\ ret' = Ret("h5_len", o.status, "", None,
                      IF o.status = "ok" THEN o.value ELSE 0, {})

InitH5 == InitCollection /\ pandas \in BOOLEAN

NextH5 ==
    \/ H5Open
    \/ H5Close
    \/ H5Enter
    \/ H5Exit
    \/ H5Flush
    \/ H5GetItem
    \/ H5SetItem
    \/ H5DelItem
    \/ H5Iter
    \/ H5Len

SpecH5 == InitH5 /\ [][NextH5]_vars

\* The data accesses of a store: what each does to the store h5s in this state.
H5Accesses ==
    {H5Store__getitem__(h5s, k) : k \in H5Keys}
        \cup {H5Store__setitem__(h5s, k, v) : k \in H5Keys, v \in H5Values}
        \cup {H5Store__delitem__(h5s, k) : k \in H5Keys}
        \cup {H5Store__iter__(h5s), H5Store__len__(h5s)}

\* C29: on a store that is not open, get, set, delete, iteration and len raise
\* RuntimeError and leave the store as it is, not open.
C29_ClosedStoreFails ==
    h5s._file = "None" =>
        \A o \in H5Accesses : o = h5outcome("RuntimeError", None, h5s)

\* A data access has failed on a store that was closed after data was written
\* to it.
C29_Witness ==
    /\ h5s._file = "None"
    /\ h5s.root # EmptyFcn
    /\ ret.op \in {"h5_get", "h5_set", "h5_del", "h5_iter", "h5_len"}
    /\ ret.status = "RuntimeError"

\* C30: an assignment h5s[k] = v on an open store that raises TypeError, v being
\* of a type the backend rejects, leaves the store with the keys and the values
\* it had, whether k was among them or not.
C30_RejectedLeavesStore ==
    [][(h5s._file # "None" /\ ret'.op = "h5_set" /\ ret'.filter = Foo
          /\ ret'.status = "TypeError") => h5s' = h5s]_vars

----------------------------------------------------------------------------
\* What every key of the store reads as, were the store open.
H5Reads(s) == [k \in H5Keys |-> H5Store__getitem__([s EXCEPT !._file = "File"], k)]

\* C31: open() on an open store and close() on a store that is not open change
\* nothing and raise nothing; open() and the entry of a with-block open a store
\* that is not open, close() and the exit of a with-block leave it not open,
\* however often this is repeated; and what was stored while the store was open
\* is read back, key by key, after close() followed by open().
C31_Reenterable ==
    LET opened == H5Store_open(h5s)
        closed == H5Store_close(h5s)
        entered == H5Store__enter__(h5s)
        exited == H5Store__exit__(h5s)
        reopened == H5Store_open(closed.self)
    IN  /\ h5s._file # "None" => opened = h5outcome("ok", None, h5s)
        /\ h5s._file = "None" => closed = h5outcome("ok", None, h5s)
        /\ opened.status = "ok" /\ opened.self._file = "File"
        /\ entered.status = "ok" /\ entered.self._file = "File"
        /\ closed.status = "ok" /\ closed.self._file = "None"
        /\ exited.status = "ok" /\ exited.self._file = "None"
        /\ reopened.status = "ok" /\ reopened.self._file = "File"
        /\ reopened.self.root = h5s.root
        /\ H5Reads(reopened.self) = H5Reads(h5s)
        /\ H5Reads(entered.self) = H5Reads(h5s)

\* A store that holds a dataset has been opened after it was closed, by open()
\* or by a with-block.
C31_Witness ==
    /\ ret.op \in {"h5_open", "h5_enter"}
    /\ ret.key = ""
    /\ ret.status = "ok"
    /\ h5s._file = "File"
    /\ \E k \in DOMAIN h5s.root : h5s.root[k][1] = "dataset"

----------------------------------------------------------------------------
\* C32: in every state of an open collection, refreshed or not, every dirty id
\* and every id in a bucket of an index is an id of the table, and no bucket is
\* empty.
C32_IdsOfTheTable ==
    is_open =>
        /\ dirty \subseteq DOMAIN docs
        /\ \A P \in DOMAIN indeces : \A V \in DOMAIN indeces[P] :
              /\ indeces[P][V] \subseteq DOMAIN docs
              /\ indeces[P][V] # {}

\* A refresh has failed half-way, or a document has been deleted, while an
\* index holds a bucket and an id awaits its refresh.
C32_Witness ==
    /\ is_open
    /\ \/ ret.status = "TypeError" /\ ret.op \in {"find", "index", "index_build"}
       \/ ret.status = "ok" /\ ret.op \in {"del", "delete_many", "delete_one"}
    /\ dirty # {}
    /\ \E P \in DOMAIN indeces : DOMAIN indeces[P] # {}
    /\ Cardinality(DOMAIN indeces) > 1

----------------------------------------------------------------------------
\* The state clear() leaves in the collection: no document, no index, no dirty
\* id, the flag set; find({}) returns nothing and index(P) without build fails
\* for every path.
Cleared ==
    /\ docs = EmptyFcn
    /\ indeces = EmptyFcn
    /\ dirty = {}
    /\ requires_flush
    /\ \A o \in find(Self, F_empty, 0) : o.status = "ok" /\ o.ids = {}
    /\ \A P \in ShapeKeys : \A o \in index_of(Self, P, FALSE) :
          o.status = "KeyError" /\ o.self = Self

\* C33: after clear() on an open collection the table, the indices and the
\* dirty set are empty and the requires-flush flag is set, and the flush that
\* follows leaves the resource with no document: read again, it yields an
\* empty table.
C33_ClearEmpties ==
    (is_open /\ ret.op = "clear" /\ ret.status = "ok")
        => /\ Cleared
           /\ \A o \in flush(Self, TheFile) :
                 o.status = "ok" => open(o.file.lines).self.docs = EmptyFcn

\* The part of C33 that holds: what clear() leaves in the collection.
C33_ClearResets ==
    (is_open /\ ret.op = "clear" /\ ret.status = "ok") => Cleared

====
